---- MODULE Spec2Model ----
(***************************************************************************)
(* Model of advion_wrapper.cpp: a flat C-linkage facade over the Advion    *)
(* CMS SDK.  Each exported function is one action.  The SDK itself is an   *)
(* opaque collaborator: the result of every vendor call is drawn from the  *)
(* values of its return type, and the state kept for it is the minimum the *)
(* interface exposes (acquisition phase, controller phase and bound        *)
(* instrument, the set of allocated instruments, the readers).             *)
(*                                                                         *)
(* Every action records the exported call (lastOp), the vendor calls it    *)
(* performed (calls) and what it handed back to the caller (ret: <<>> when *)
(* nothing is returned, <<v>> otherwise).                                  *)
(*                                                                         *)
(* A member call through a pointer that does not designate a live object   *)
(* is undefined behaviour: the process ends as "crashed" or "undefined".   *)
(* A C++ exception leaving an exported function ends it as "faulted".      *)
(***************************************************************************)
EXTENDS Integers, Sequences, FiniteSets, TLC

VARIABLES proc, instruments, readers, acq, ctrl, lastOp, calls, ret, advice

vars == <<proc, instruments, readers, acq, ctrl, lastOp, calls, ret, advice>>

\* ---------------------------------------------------------------- bounds
MaxInstruments == 1
MaxReaders == 2
MaxSpectra == 1

\* ------------------------------------------------------------ value sets
NULL == 0
InstrumentIds == 1..MaxInstruments
ReaderIds == 1..MaxReaders
\* Scan indices a caller passes: those of the file and the first one past it.
Indices == 0..MaxSpectra
Seconds == {0, 1}

ErrorCode == {"OK", "ERR"}
OperationMode == {"Mode0", "Mode1"}
SourceType == {"ESI", "APCI"}
InstrumentSwitch == {"Switch0"}
NumberReadback == {"Number0"}
BinaryReadback == {"Binary0"}
Numbers == {0, 1}
Paths == {"run.datx", "missing.datx"}
ExistingFiles == {"run.datx"}
\* Address of the one caller-allocated output buffer.
Buffers == {100}

\* C strings handed in by the caller: one distinct token per argument
\* position, in two flavours, so that a reordering is visible.
TokA == <<"a1", "a2", "a3", "a4", "a5", "a6", "a7">>
TokB == <<"b1", "b2", "b3", "b4", "b5", "b6", "b7">>
ArgVec(n) == {SubSeq(TokA, 1, n), SubSeq(TokB, 1, n)}
Texts == {"a1", "b1"}

\* readers[a] is "never" (no reader was ever placed at a), "live" or "freed".

IsLive(dr) == dr \in ReaderIds /\ readers[dr] = "live"

\* Number of scans a reader reports; the files of the model all hold this many.
NumSpectra(dr) == MaxSpectra
IsInstrument(i) == i \in instruments

\* Pointers a caller can hold: null and whatever a factory has returned so far.
InstrumentPtrs == {NULL} \cup instruments
ReaderPtrs == {NULL} \cup {a \in ReaderIds : readers[a] # "never"}

\* Values crossing the C boundary, tagged with their C type.
Ptr(p) == [ptr |-> p]
CInt(n) == [int |-> n]
Bool(b) == [bool |-> b]
Str(t) == [str |-> t]
Enum(e) == [enum |-> e]

Ints(S) == {CInt(n) : n \in S}
Bools == {Bool(b) : b \in BOOLEAN}
Strs(S) == {Str(t) : t \in S}
Enums(S) == {Enum(e) : e \in S}

\* ------------------------------------------------------------ call record
VendorCall(sub, method, target, args, result) ==
    [sub |-> sub, method |-> method, target |-> target, args |-> args, result |-> result]

Op(name, args) == [name |-> name, args |-> args]

\* A vendor call that comes back with value v, handed to the caller as is.
Forward(name, fargs, sub, method, target, vargs, v) ==
    /\ lastOp' = Op(name, fargs)
    /\ calls' = <<VendorCall(sub, method, target, vargs, <<v>>)>>
    /\ ret' = <<v>>
    /\ proc' = proc

\* A vendor call without a result.
ForwardVoid(name, fargs, sub, method, target, vargs) ==
    /\ lastOp' = Op(name, fargs)
    /\ calls' = <<VendorCall(sub, method, target, vargs, <<>>)>>
    /\ ret' = <<>>
    /\ proc' = proc

\* The call was issued through a pointer to no live object, which is
\* undefined behaviour: the process dies on the spot ("crashed") or goes on
\* in a state the language says nothing about ("undefined").  Either way
\* the model follows it no further.
Invalid(name, fargs, sub, method, target, vargs) ==
    /\ lastOp' = Op(name, fargs)
    /\ calls' = <<VendorCall(sub, method, target, vargs, <<>>)>>
    /\ ret' = <<>>
    /\ proc' \in {"crashed", "undefined"}

\* obj->method(vargs) with a result.
Member(name, fargs, sub, method, target, vargs, valid, Results) ==
    IF valid
    THEN \E v \in Results : Forward(name, fargs, sub, method, target, vargs, v)
    ELSE Invalid(name, fargs, sub, method, target, vargs)

\* obj->method(vargs) without a result.
MemberVoid(name, fargs, sub, method, target, vargs, valid) ==
    IF valid
    THEN ForwardVoid(name, fargs, sub, method, target, vargs)
    ELSE Invalid(name, fargs, sub, method, target, vargs)

\* ------------------------------------------- vendor state (from the spec)
AcqNext(method, rc, s) ==
    IF rc # "OK" THEN s
    ELSE CASE method \in {"start", "startWithSwitching"} -> "Running"
           [] method = "stop" -> "Idle"
           [] method = "pause" -> "Paused"
           [] method = "resume" -> "Running"
           [] OTHER -> s

CtrlNext(method, rc, c) ==
    IF rc # "OK" THEN c
    ELSE CASE method = "vent" -> [c EXCEPT !.state = "Vented"]
           [] method = "pumpDown" -> [c EXCEPT !.state = "PumpingDown"]
           [] method = "operate" -> [c EXCEPT !.state = "Operate"]
           [] method = "standby" -> [c EXCEPT !.state = "Standby"]
           [] method = "stopController" -> [c EXCEPT !.bound = NULL]
           [] OTHER -> c

Init ==
    /\ proc = "running"
    /\ instruments = {}
    /\ readers = [a \in ReaderIds |-> "never"]
    /\ acq = "Idle"
    /\ ctrl = [bound |-> NULL, state |-> "Vented"]
    /\ lastOp = Op("none", <<>>)
    /\ calls = <<>>
    /\ ret = <<>>
    /\ advice = "na"

Running == proc = "running"

\* -------------------------------------------------------------- Instruments
\* new USBInstrument(): plain new, so a failed allocation leaves the function
\* as std::bad_alloc before any constructor runs, and an exception of the
\* constructor leaves it too (the storage is given back).
NewInstrument(name, fargs, method) ==
    /\ \/ /\ \E i \in InstrumentIds \ instruments :
               \/ /\ instruments' = instruments \cup {i}
                  /\ lastOp' = Op(name, fargs)
                  /\ calls' = <<VendorCall("Instrument", method, i, fargs, <<Ptr(i)>>)>>
                  /\ ret' = <<Ptr(i)>>
                  /\ proc' = proc
               \/ /\ instruments' = instruments
                  /\ lastOp' = Op(name, fargs)
                  /\ calls' = <<VendorCall("Instrument", method, i, fargs, <<>>)>>
                  /\ ret' = <<>>
                  /\ proc' = "faulted"
       \/ /\ instruments' = instruments
          /\ lastOp' = Op(name, fargs)
          /\ calls' = <<>>
          /\ ret' = <<>>
          /\ proc' = "faulted"
    /\ advice' = "na"
    /\ UNCHANGED <<readers, acq, ctrl>>

usb_instrument ==
    /\ Running
    /\ NewInstrument("usb_instrument", <<>>, "USBInstrument")

simulated_instrument ==
    /\ Running
    /\ \E folder \in Texts :
           NewInstrument("simulated_instrument", <<Str(folder)>>, "SimulatedInstrument")

set_switch ==
    /\ Running
    /\ \E i \in InstrumentPtrs, swtch \in InstrumentSwitch, value \in BOOLEAN :
           MemberVoid("set_switch", <<Ptr(i), Enum(swtch), Bool(value)>>, "Instrument",
                      "setInstrumentSwitchOn", i, <<Enum(swtch), Bool(value)>>,
                      IsInstrument(i))
    /\ advice' = "na"
    /\ UNCHANGED <<instruments, readers, acq, ctrl>>

ignore_remaining_pumpdown_time ==
    /\ Running
    /\ \E i \in InstrumentPtrs :
           MemberVoid("ignore_remaining_pumpdown_time", <<Ptr(i)>>, "Instrument",
                      "ignoreRemainingPumpDownTime", i, <<>>, IsInstrument(i))
    /\ advice' = "na"
    /\ UNCHANGED <<instruments, readers, acq, ctrl>>

get_pumpdown_remaining_seconds ==
    /\ Running
    /\ \E i \in InstrumentPtrs :
           Member("get_pumpdown_remaining_seconds", <<Ptr(i)>>, "Instrument",
                  "getPumpDownRemainingSeconds", i, <<>>, IsInstrument(i),
                  Ints(Numbers))
    /\ advice' = "na"
    /\ UNCHANGED <<instruments, readers, acq, ctrl>>

get_source ==
    /\ Running
    /\ \E i \in InstrumentPtrs :
           Member("get_source", <<Ptr(i)>>, "Instrument", "getSourceType", i, <<>>,
                  IsInstrument(i), Enums(SourceType))
    /\ advice' = "na"
    /\ UNCHANGED <<instruments, readers, acq, ctrl>>

get_number_readback ==
    /\ Running
    /\ \E i \in InstrumentPtrs, id \in NumberReadback :
           Member("get_number_readback", <<Ptr(i), Enum(id)>>, "Instrument",
                  "getNumberReadback", i, <<Enum(id)>>, IsInstrument(i),
                  Ints(Numbers))
    /\ advice' = "na"
    /\ UNCHANGED <<instruments, readers, acq, ctrl>>

get_binary_readback ==
    /\ Running
    /\ \E i \in InstrumentPtrs, id \in BinaryReadback :
           Member("get_binary_readback", <<Ptr(i), Enum(id)>>, "Instrument",
                  "getBinaryReadback", i, <<Enum(id)>>, IsInstrument(i), Bools)
    /\ advice' = "na"
    /\ UNCHANGED <<instruments, readers, acq, ctrl>>

\* -------------------------------------------------------- AcquisitionManager
AcqCommand(name, fargs, method, vargs) ==
    /\ \E rc \in ErrorCode :
           /\ Forward(name, fargs, "AcquisitionManager", method, NULL, vargs, Enum(rc))
           /\ acq' = AcqNext(method, rc, acq)
    /\ advice' = "na"
    /\ UNCHANGED <<instruments, readers, ctrl>>

AcqQuery(name, fargs, method, vargs, Results) ==
    /\ \E v \in Results :
           Forward(name, fargs, "AcquisitionManager", method, NULL, vargs, v)
    /\ advice' = "na"
    /\ UNCHANGED <<instruments, readers, acq, ctrl>>

start ==
    /\ Running
    /\ \E a \in ArgVec(5) :
           LET methodXML == Str(a[1])  ionSourceXML == Str(a[2])  tuneXML == Str(a[3])
               name == Str(a[4])  folder == Str(a[5])
           IN AcqCommand("start", <<methodXML, ionSourceXML, tuneXML, name, folder>>,
                         "start", <<methodXML, ionSourceXML, tuneXML, name, folder>>)

\* start_with_switching with ionSourceXML2 and tuneXML1 handed over in each
\* other's place.
start_with_switching_swapped ==
    /\ Running
    /\ \E a \in ArgVec(7) :
           LET methodXML == Str(a[1])  ionSourceXML1 == Str(a[2])  ionSourceXML2 == Str(a[3])
               tuneXML1 == Str(a[4])  tuneXML2 == Str(a[5])  name == Str(a[6])
               folder == Str(a[7])
           IN AcqCommand("start_with_switching",
                         <<methodXML, ionSourceXML1, ionSourceXML2, tuneXML1, tuneXML2, name, folder>>,
                         "startWithSwitching",
                         <<methodXML, ionSourceXML1, tuneXML1, ionSourceXML2, tuneXML2, name, folder>>)

start_with_switching ==
    /\ Running
    /\ \E a \in ArgVec(7) :
           LET methodXML == Str(a[1])  ionSourceXML1 == Str(a[2])  ionSourceXML2 == Str(a[3])
               tuneXML1 == Str(a[4])  tuneXML2 == Str(a[5])  name == Str(a[6])
               folder == Str(a[7])
           IN AcqCommand("start_with_switching",
                         <<methodXML, ionSourceXML1, ionSourceXML2, tuneXML1, tuneXML2, name, folder>>,
                         "startWithSwitching",
                         <<methodXML, ionSourceXML1, ionSourceXML2, tuneXML1, tuneXML2, name, folder>>)

\* stop sent to the controller instead of the acquisition manager.
stop_wrong_manager ==
    /\ Running
    /\ \E rc \in ErrorCode :
           /\ Forward("stop", <<>>, "InstrumentController", "stopController", NULL, <<>>,
                      Enum(rc))
           /\ ctrl' = CtrlNext("stopController", rc, ctrl)
    /\ advice' = "na"
    /\ UNCHANGED <<instruments, readers, acq>>

stop ==
    /\ Running
    /\ AcqCommand("stop", <<>>, "stop", <<>>)

pause ==
    /\ Running
    /\ AcqCommand("pause", <<>>, "pause", <<>>)

resume ==
    /\ Running
    /\ AcqCommand("resume", <<>>, "resume", <<>>)

extend ==
    /\ Running
    /\ \E seconds \in Seconds :
           AcqQuery("extend", <<CInt(seconds)>>, "extend", <<CInt(seconds)>>, Ints(Numbers))

get_state ==
    /\ Running
    /\ AcqQuery("get_state", <<>>, "getState", <<>>, {Enum(acq)})

get_current_folder ==
    /\ Running
    /\ AcqQuery("get_current_folder", <<>>, "getCurrentFolder", <<>>, Strs(Texts))

get_acquisition_bins_per_amu ==
    /\ Running
    /\ AcqQuery("get_acquisition_bins_per_amu", <<>>, "getAcquisitionBinsPerAMU", <<>>,
                Ints(Numbers))

set_acquisition_bins_per_amu ==
    /\ Running
    /\ \E bins_per_amu \in Numbers :
           AcqCommand("set_acquisition_bins_per_amu", <<CInt(bins_per_amu)>>,
                      "setAcquisitionBinsPerAMU", <<CInt(bins_per_amu)>>)

get_last_num_masses ==
    /\ Running
    /\ AcqQuery("get_last_num_masses", <<>>, "getLastNumMasses", <<>>, Ints(Numbers))

get_max_num_masses ==
    /\ Running
    /\ AcqQuery("get_max_num_masses", <<>>, "getMaxNumMasses", <<>>, Ints(Numbers))

get_last_spectrum_masses ==
    /\ Running
    /\ \E buff \in Buffers :
           AcqQuery("get_last_spectrum_masses", <<Ptr(buff)>>, "getLastSpectrumMasses",
                    <<Ptr(buff)>>, Enums(ErrorCode))

get_last_spectrum_intensities ==
    /\ Running
    /\ \E buff \in Buffers :
           AcqQuery("get_last_spectrum_intensities", <<Ptr(buff)>>,
                    "getLastSpectrumIntensities", <<Ptr(buff)>>, Enums(ErrorCode))

\* ------------------------------------------------------ InstrumentController
CtrlCommand(name, fargs, method, vargs, adv) ==
    /\ \E rc \in ErrorCode :
           /\ Forward(name, fargs, "InstrumentController", method, NULL, vargs, Enum(rc))
           /\ ctrl' = CtrlNext(method, rc, ctrl)
    /\ advice' = adv
    /\ UNCHANGED <<instruments, readers, acq>>

CtrlQuery(name, fargs, method, vargs, Results) ==
    /\ \E v \in Results :
           Forward(name, fargs, "InstrumentController", method, NULL, vargs, v)
    /\ advice' = "na"
    /\ UNCHANGED <<instruments, readers, acq, ctrl>>

\* What the caller learnt from the call just before this one, when that call
\* was the guard query `guard`.
Advice(guard) ==
    IF lastOp.name = guard /\ ret # <<>>
    THEN (IF ret[1].bool THEN "allowed" ELSE "denied")
    ELSE "unasked"

start_controller ==
    /\ Running
    /\ \E instrument \in InstrumentPtrs, rc \in ErrorCode :
           /\ Forward("start_controller", <<Ptr(instrument)>>, "InstrumentController",
                      "startController", NULL, <<Ptr(instrument)>>, Enum(rc))
           /\ ctrl' = IF rc = "OK" /\ IsInstrument(instrument)
                      THEN [ctrl EXCEPT !.bound = instrument]
                      ELSE ctrl
    /\ advice' = "na"
    /\ UNCHANGED <<instruments, readers, acq>>

\* stop_controller that also deletes the instrument it was bound to.
stop_controller_releasing ==
    /\ Running
    /\ \E rc \in ErrorCode :
           /\ Forward("stop_controller", <<>>, "InstrumentController", "stopController",
                      NULL, <<>>, Enum(rc))
           /\ ctrl' = CtrlNext("stopController", rc, ctrl)
    /\ instruments' = instruments \ {ctrl.bound}
    /\ advice' = "na"
    /\ UNCHANGED <<readers, acq>>

stop_controller ==
    /\ Running
    /\ CtrlCommand("stop_controller", <<>>, "stopController", <<>>, "na")

can_vent ==
    /\ Running
    /\ CtrlQuery("can_vent", <<>>, "canVent", <<>>, Bools)

\* vent that asks canVent() itself and refuses when the answer is no.
vent_guarded ==
    /\ Running
    /\ \/ CtrlCommand("vent", <<>>, "vent", <<>>, Advice("can_vent"))
       \/ /\ lastOp' = Op("vent", <<>>)
          /\ calls' = <<VendorCall("InstrumentController", "canVent", NULL, <<>>,
                                  <<Bool(FALSE)>>)>>
          /\ ret' = <<Enum("ERR")>>
          /\ proc' = proc
          /\ advice' = Advice("can_vent")
          /\ UNCHANGED <<instruments, readers, acq, ctrl>>

vent ==
    /\ Running
    /\ CtrlCommand("vent", <<>>, "vent", <<>>, Advice("can_vent"))

can_pump_down ==
    /\ Running
    /\ CtrlQuery("can_pump_down", <<>>, "canPumpDown", <<>>, Bools)

pump_down ==
    /\ Running
    /\ CtrlCommand("pump_down", <<>>, "pumpDown", <<>>, Advice("can_pump_down"))

get_instrument_state ==
    /\ Running
    /\ CtrlQuery("get_instrument_state", <<>>, "getState", <<>>, {Enum(ctrl.state)})

get_operation_mode ==
    /\ Running
    /\ CtrlQuery("get_operation_mode", <<>>, "getOperationMode", <<>>,
                 Enums(OperationMode))

can_operate ==
    /\ Running
    /\ CtrlQuery("can_operate", <<>>, "canOperate", <<>>, Bools)

operate ==
    /\ Running
    /\ CtrlCommand("operate", <<>>, "operate", <<>>, Advice("can_operate"))

standby ==
    /\ Running
    /\ CtrlCommand("standby", <<>>, "standby", <<>>, Advice("can_standby"))

can_standby ==
    /\ Running
    /\ CtrlQuery("can_standby", <<>>, "canStandby", <<>>, Bools)

get_tune_parameters ==
    /\ Running
    /\ CtrlQuery("get_tune_parameters", <<>>, "getTuneParameters", <<>>, Strs(Texts))

set_tune_parameters ==
    /\ Running
    /\ \E tune_xml \in Texts :
           CtrlCommand("set_tune_parameters", <<Str(tune_xml)>>, "setTuneParameters",
                       <<Str(tune_xml)>>, "na")

get_ion_source_optimization ==
    /\ Running
    /\ CtrlQuery("get_ion_source_optimization", <<>>, "getIonSourceOptimization", <<>>,
                 Strs(Texts))

set_ion_source_optimization ==
    /\ Running
    /\ \E ion_source_xml \in Texts :
           CtrlCommand("set_ion_source_optimization", <<Str(ion_source_xml)>>,
                       "setIonSourceOptimization", <<Str(ion_source_xml)>>, "na")

\* ---------------------------------------------------------- Data processing
\* new(std::nothrow) DataReader(path, debugOutput, decodeSpectra):
\*   - the allocation fails: the expression is null, no constructor runs;
\*   - the allocation succeeds and the constructor returns: the new object;
\*   - the allocation succeeds and the constructor throws: the storage is
\*     given back and the exception leaves make_reader (there is no handler).
\* What the constructor does with a path that names no file is the vendor's
\* business: it returns or throws.  Storage is handed out in address order
\* and not handed out twice.
make_reader ==
    /\ Running
    /\ \E path \in Paths, debugOutput \in BOOLEAN, decodeSpectra \in BOOLEAN :
         LET fargs == <<Str(path), Bool(debugOutput), Bool(decodeSpectra)>>
         IN \/ /\ lastOp' = Op("make_reader", fargs)
               /\ calls' = <<>>
               /\ ret' = <<Ptr(NULL)>>
               /\ proc' = proc
               /\ readers' = readers
            \/ \E dr \in ReaderIds :
                 /\ readers[dr] = "never"
                 /\ \A b \in ReaderIds : b < dr => readers[b] # "never"
                 /\ \/ /\ readers' = [readers EXCEPT ![dr] = "live"]
                       /\ lastOp' = Op("make_reader", fargs)
                       /\ calls' = <<VendorCall("DataReader", "DataReader", dr, fargs,
                                               <<Ptr(dr)>>)>>
                       /\ ret' = <<Ptr(dr)>>
                       /\ proc' = proc
                    \/ /\ readers' = readers
                       /\ lastOp' = Op("make_reader", fargs)
                       /\ calls' = <<VendorCall("DataReader", "DataReader", dr, fargs, <<>>)>>
                       /\ ret' = <<>>
                       /\ proc' = "faulted"
    /\ advice' = "na"
    /\ UNCHANGED <<instruments, acq, ctrl>>

\* free_reader that runs the destructor on whatever it is given, null included.
free_reader_unchecked ==
    /\ Running
    /\ \E dr \in ReaderPtrs :
         /\ MemberVoid("free_reader", <<Ptr(dr)>>, "DataReader", "~DataReader",
                       dr, <<>>, IsLive(dr))
         /\ readers' = IF IsLive(dr) THEN [readers EXCEPT ![dr] = "freed"]
                       ELSE readers
    /\ advice' = "na"
    /\ UNCHANGED <<instruments, acq, ctrl>>

\* delete dr: nothing for a null pointer; destructor and release for a live
\* object; undefined behaviour for a pointer to an object already released
\* (the destructor runs on it and its storage is released a second time).
free_reader ==
    /\ Running
    /\ \E dr \in ReaderPtrs :
         IF dr = NULL
         THEN /\ lastOp' = Op("free_reader", <<Ptr(dr)>>)
              /\ calls' = <<>>
              /\ ret' = <<>>
              /\ proc' = proc
              /\ readers' = readers
         ELSE /\ MemberVoid("free_reader", <<Ptr(dr)>>, "DataReader", "~DataReader",
                            dr, <<>>, IsLive(dr))
              /\ readers' = IF IsLive(dr) THEN [readers EXCEPT ![dr] = "freed"]
                            ELSE readers
    /\ advice' = "na"
    /\ UNCHANGED <<instruments, acq, ctrl>>

ReaderQuery(name, fargs, method, dr, vargs, Results) ==
    /\ Member(name, fargs, "DataReader", method, dr, vargs, IsLive(dr), Results)
    /\ advice' = "na"
    /\ UNCHANGED <<instruments, readers, acq, ctrl>>

get_delta_background_spectrum ==
    /\ Running
    /\ \E dr \in ReaderPtrs, intensities \in Buffers :
           ReaderQuery("get_delta_background_spectrum", <<Ptr(dr), Ptr(intensities)>>,
                       "getDeltaBackgroundSpectrum", dr, <<Ptr(intensities)>>,
                       Enums(ErrorCode))

get_delta_spectrum ==
    /\ Running
    /\ \E dr \in ReaderPtrs, index \in Indices, intensities \in Buffers :
           ReaderQuery("get_delta_spectrum", <<Ptr(dr), CInt(index), Ptr(intensities)>>,
                       "getDeltaSpectrum", dr, <<CInt(index), Ptr(intensities)>>,
                       Enums(ErrorCode))

get_spectrum ==
    /\ Running
    /\ \E dr \in ReaderPtrs, index \in Indices, intensities \in Buffers :
           ReaderQuery("get_spectrum", <<Ptr(dr), CInt(index), Ptr(intensities)>>,
                       "getSpectrum", dr, <<CInt(index), Ptr(intensities)>>,
                       Enums(ErrorCode))

get_masses ==
    /\ Running
    /\ \E dr \in ReaderPtrs, masses \in Buffers :
           ReaderQuery("get_masses", <<Ptr(dr), Ptr(masses)>>, "getMasses", dr,
                       <<Ptr(masses)>>, Enums(ErrorCode))

num_masses ==
    /\ Running
    /\ \E dr \in ReaderPtrs :
           ReaderQuery("num_masses", <<Ptr(dr)>>, "getNumMasses", dr, <<>>,
                       Ints(Numbers))

num_spectra ==
    /\ Running
    /\ \E dr \in ReaderPtrs :
           ReaderQuery("num_spectra", <<Ptr(dr)>>, "getNumSpectra", dr, <<>>,
                       {CInt(NumSpectra(dr))})

retention_times ==
    /\ Running
    /\ \E dr \in ReaderPtrs, times \in Buffers :
           ReaderQuery("retention_times", <<Ptr(dr), Ptr(times)>>, "getRetentionTimes", dr,
                       <<Ptr(times)>>, Enums(ErrorCode))

\* get_TIC that looks at the handle first and answers 0 for one that is not
\* a live reader.
get_TIC_checked ==
    /\ Running
    /\ \E dr \in ReaderPtrs, index \in Indices :
           IF IsLive(dr)
           THEN ReaderQuery("get_TIC", <<Ptr(dr), CInt(index)>>, "getTIC", dr, <<CInt(index)>>,
                            Ints(Numbers))
           ELSE /\ lastOp' = Op("get_TIC", <<Ptr(dr), CInt(index)>>)
                /\ calls' = <<>>
                /\ ret' = <<CInt(0)>>
                /\ proc' = proc
                /\ advice' = "na"
                /\ UNCHANGED <<instruments, readers, acq, ctrl>>

get_TIC ==
    /\ Running
    /\ \E dr \in ReaderPtrs, index \in Indices :
           ReaderQuery("get_TIC", <<Ptr(dr), CInt(index)>>, "getTIC", dr, <<CInt(index)>>,
                       Ints(Numbers))

\* ===================================================================
\* The forwarding table the facade is said to implement: exported name,
\* vendor subsystem and vendor method.
InstrumentOps ==
    {"set_switch", "ignore_remaining_pumpdown_time", "get_pumpdown_remaining_seconds",
     "get_source", "get_number_readback", "get_binary_readback"}

AcquisitionOps ==
    {"start", "start_with_switching", "stop", "pause", "resume", "extend", "get_state",
     "get_current_folder", "get_acquisition_bins_per_amu", "set_acquisition_bins_per_amu",
     "get_last_num_masses", "get_max_num_masses", "get_last_spectrum_masses",
     "get_last_spectrum_intensities"}

ControllerOps ==
    {"start_controller", "stop_controller", "can_vent", "vent", "can_pump_down",
     "pump_down", "get_instrument_state", "get_operation_mode", "can_operate", "operate",
     "standby", "can_standby", "get_tune_parameters", "set_tune_parameters",
     "get_ion_source_optimization", "set_ion_source_optimization"}

ReaderQueryOps ==
    {"get_delta_background_spectrum", "get_delta_spectrum", "get_spectrum", "get_masses",
     "num_masses", "num_spectra", "retention_times", "get_TIC"}

FactoryOps == {"usb_instrument", "simulated_instrument"}

ReaderOps == ReaderQueryOps \cup {"make_reader", "free_reader"}

ExportedOps == InstrumentOps \cup AcquisitionOps \cup ControllerOps \cup ReaderOps \cup FactoryOps

GuardedActions == {"vent", "pump_down", "operate", "standby"}

VendorMethod(n) ==
    CASE n = "usb_instrument" -> "USBInstrument"
      [] n = "simulated_instrument" -> "SimulatedInstrument"
      [] n = "set_switch" -> "setInstrumentSwitchOn"
      [] n = "ignore_remaining_pumpdown_time" -> "ignoreRemainingPumpDownTime"
      [] n = "get_pumpdown_remaining_seconds" -> "getPumpDownRemainingSeconds"
      [] n = "get_source" -> "getSourceType"
      [] n = "get_number_readback" -> "getNumberReadback"
      [] n = "get_binary_readback" -> "getBinaryReadback"
      [] n = "start" -> "start"
      [] n = "start_with_switching" -> "startWithSwitching"
      [] n = "stop" -> "stop"
      [] n = "pause" -> "pause"
      [] n = "resume" -> "resume"
      [] n = "extend" -> "extend"
      [] n = "get_state" -> "getState"
      [] n = "get_current_folder" -> "getCurrentFolder"
      [] n = "get_acquisition_bins_per_amu" -> "getAcquisitionBinsPerAMU"
      [] n = "set_acquisition_bins_per_amu" -> "setAcquisitionBinsPerAMU"
      [] n = "get_last_num_masses" -> "getLastNumMasses"
      [] n = "get_max_num_masses" -> "getMaxNumMasses"
      [] n = "get_last_spectrum_masses" -> "getLastSpectrumMasses"
      [] n = "get_last_spectrum_intensities" -> "getLastSpectrumIntensities"
      [] n = "start_controller" -> "startController"
      [] n = "stop_controller" -> "stopController"
      [] n = "can_vent" -> "canVent"
      [] n = "vent" -> "vent"
      [] n = "can_pump_down" -> "canPumpDown"
      [] n = "pump_down" -> "pumpDown"
      [] n = "get_instrument_state" -> "getState"
      [] n = "get_operation_mode" -> "getOperationMode"
      [] n = "can_operate" -> "canOperate"
      [] n = "operate" -> "operate"
      [] n = "standby" -> "standby"
      [] n = "can_standby" -> "canStandby"
      [] n = "get_tune_parameters" -> "getTuneParameters"
      [] n = "set_tune_parameters" -> "setTuneParameters"
      [] n = "get_ion_source_optimization" -> "getIonSourceOptimization"
      [] n = "set_ion_source_optimization" -> "setIonSourceOptimization"
      [] n = "make_reader" -> "DataReader"
      [] n = "free_reader" -> "~DataReader"
      [] n = "get_delta_background_spectrum" -> "getDeltaBackgroundSpectrum"
      [] n = "get_delta_spectrum" -> "getDeltaSpectrum"
      [] n = "get_spectrum" -> "getSpectrum"
      [] n = "get_masses" -> "getMasses"
      [] n = "num_masses" -> "getNumMasses"
      [] n = "num_spectra" -> "getNumSpectra"
      [] n = "retention_times" -> "getRetentionTimes"
      [] n = "get_TIC" -> "getTIC"
      [] OTHER -> "none"

VendorSubsystem(n) ==
    CASE n \in InstrumentOps \cup FactoryOps -> "Instrument"
      [] n \in AcquisitionOps -> "AcquisitionManager"
      [] n \in ControllerOps -> "InstrumentController"
      [] n \in ReaderOps -> "DataReader"
      [] OTHER -> "none"

\* The one vendor call operation `op` stands for, had it come back with `r`:
\* a static call takes the arguments as they are, a member call is made on
\* the first argument with the remaining ones.
TheCall(op, r) ==
    IF op.name \in AcquisitionOps \cup ControllerOps
    THEN VendorCall(VendorSubsystem(op.name), VendorMethod(op.name), NULL, op.args, r)
    ELSE VendorCall(VendorSubsystem(op.name), VendorMethod(op.name), op.args[1].ptr,
                    Tail(op.args), r)

ForwardedOnce(op, cs, r) == Len(cs) = 1 /\ cs[1] = TheCall(op, r)

\* C1: make_reader never lets a fault reach the caller: it returns, and what
\* it returns is either the null handle or the handle of a live reader.
C1_MakeReaderNeverFaults ==
    lastOp.name = "make_reader" =>
        /\ proc = "running"
        /\ Len(ret) = 1
        /\ (ret[1].ptr = NULL \/ IsLive(ret[1].ptr))

\* C2: make_reader on a path naming no file returns the null handle and does
\* not crash, whatever debugOutput and decodeSpectra are.
C2_MissingPathGivesNull ==
    (lastOp.name = "make_reader" /\ lastOp.args[1].str \notin ExistingFiles) =>
        /\ proc = "running"
        /\ ret = <<Ptr(NULL)>>

\* C3: free_reader(null) is a no-op: no vendor call, nothing returned, and
\* the process, the instruments, the readers, the acquisition state and the
\* controller state are as before.
C3_FreeNullIsNoOp ==
    [][(lastOp'.name = "free_reader" /\ lastOp'.args[1].ptr = NULL) =>
          /\ calls' = <<>>
          /\ ret' = <<>>
          /\ UNCHANGED <<proc, instruments, readers, acq, ctrl>>]_vars

C3_Witness ==
    /\ lastOp.name = "free_reader"
    /\ lastOp.args[1].ptr = NULL
    /\ proc = "running"
    /\ instruments # {}
    /\ \E a \in ReaderIds : readers[a] = "live"

\* C4 (as stated): every exported operation that returns has performed
\* exactly one vendor call, on its own subsystem, and returns that call's
\* result.
C4_ExactlyOneCallAlways ==
    (lastOp.name \in ExportedOps /\ proc = "running") =>
        /\ Len(calls) = 1
        /\ calls[1].sub = VendorSubsystem(lastOp.name)
        /\ calls[1].method = VendorMethod(lastOp.name)
        /\ ret = calls[1].result

\* C4 (amended): every exported operation performs at most one vendor call,
\* on its own subsystem, with its arguments unchanged and in order, and when
\* it returns it hands that call's result back unchanged.  It performs
\* exactly one, except that free_reader(null) performs none, make_reader
\* performs none when the allocation fails (and returns null), and
\* usb_instrument and simulated_instrument perform none when the allocation
\* fails (and fault).
C4_ForwardsOnceUnchanged ==
    /\ lastOp.name \in InstrumentOps \cup AcquisitionOps \cup ControllerOps \cup ReaderQueryOps =>
           ForwardedOnce(lastOp, calls, ret)
    /\ lastOp.name \in FactoryOps =>
           \/ calls = <<>> /\ ret = <<>> /\ proc = "faulted"
           \/ /\ Len(calls) = 1
              /\ calls[1].sub = "Instrument"
              /\ calls[1].method = VendorMethod(lastOp.name)
              /\ calls[1].args = lastOp.args
              /\ calls[1].result = ret
              /\ (ret # <<>> => ret[1].ptr = calls[1].target)
    /\ lastOp.name = "make_reader" =>
           \/ calls = <<>> /\ ret = <<Ptr(NULL)>>
           \/ /\ Len(calls) = 1
              /\ calls[1].sub = "DataReader" /\ calls[1].method = "DataReader"
              /\ calls[1].args = lastOp.args
              /\ calls[1].result = ret
              /\ (ret # <<>> => ret[1].ptr = calls[1].target)
    /\ lastOp.name = "free_reader" =>
           IF lastOp.args[1].ptr = NULL THEN calls = <<>> /\ ret = <<>>
           ELSE ForwardedOnce(lastOp, calls, ret)

C4_Witness ==
    /\ lastOp.name = "start_with_switching"
    /\ lastOp.args = [k \in 1..7 |-> Str(TokB[k])]
    /\ Len(calls) = 1
    /\ calls[1].args = lastOp.args
    /\ ret = <<Enum("ERR")>>

\* C5: vent, pump_down, operate and standby can be called in every state of a
\* running process and are always forwarded to the controller, whether the
\* matching guard was not asked, said yes or said no just before; what comes
\* back is the ErrorCode of the controller.
C5_GuardsAdvisory ==
    /\ proc = "running" =>
           (ENABLED vent) /\ (ENABLED pump_down) /\ (ENABLED operate) /\ (ENABLED standby)
    /\ \A adv \in {"unasked", "allowed", "denied"} :
           (lastOp.name \in GuardedActions /\ advice = adv) =>
               /\ ForwardedOnce(lastOp, calls, ret)
               /\ ret \in {<<Enum(rc)>> : rc \in ErrorCode}

C5_Witness ==
    /\ lastOp.name = "vent"
    /\ advice = "denied"
    /\ ctrl.state = "Vented"
    /\ Len(calls) = 1
    /\ calls[1].method = "vent"
    /\ ret = <<Enum("ERR")>>

\* C7: on a live reader, get_TIC and get_spectrum are carried out for an
\* index in [0, num_spectra) and for any other index are not carried out but
\* fail with an error outcome.
C7_IndexChecked ==
    (lastOp.name \in {"get_TIC", "get_spectrum"} /\ IsLive(lastOp.args[1].ptr)) =>
        IF 0 <= lastOp.args[2].int /\ lastOp.args[2].int < NumSpectra(lastOp.args[1].ptr)
        THEN ForwardedOnce(lastOp, calls, ret) /\ Len(ret) = 1
        ELSE /\ calls = <<>>
             /\ proc = "running"
             /\ (lastOp.name = "get_spectrum" => ret = <<Enum("ERR")>>)

\* C8: a reader operation is forwarded to the handle it was given, whatever
\* that handle is (null, freed, live), and free_reader runs the release on
\* any non-null handle, a freed one included; the reader that is accessed is
\* live, and the call comes back, whenever the handle given was live.
C8_HandlesUnguarded ==
    [][(lastOp'.name \in ReaderQueryOps
          \/ (lastOp'.name = "free_reader" /\ lastOp'.args[1].ptr # NULL)) =>
          /\ ForwardedOnce(lastOp', calls', ret')
          /\ (IsLive(lastOp'.args[1].ptr) <=> IsLive(calls'[1].target))
          /\ (IsLive(lastOp'.args[1].ptr) => proc' = "running")]_vars

C8_Witness ==
    /\ lastOp.name = "get_TIC"
    /\ lastOp.args[1].ptr \in ReaderIds
    /\ readers[lastOp.args[1].ptr] = "freed"
    /\ Len(calls) = 1
    /\ calls[1].target = lastOp.args[1].ptr
    /\ calls[1].method = "getTIC"
    /\ proc = "undefined"

\* C9: the set of allocated instruments never loses a member, and the
\* instrument the controller is bound to stays allocated.
C9_InstrumentsNeverReleased ==
    [][/\ instruments \subseteq instruments'
       /\ (ctrl'.bound # NULL => ctrl'.bound \in instruments')]_vars

C9_Witness ==
    /\ lastOp.name = "free_reader"
    /\ Len(calls) = 1
    /\ readers[calls[1].target] = "freed"
    /\ proc = "running"
    /\ ctrl.bound # NULL
    /\ ctrl.bound \in instruments

\* C10: an acquisition operation calls only the acquisition manager and
\* leaves the controller and the readers alone; a controller operation calls
\* only the controller and leaves the acquisition state and the readers
\* alone; a reader operation calls only the DataReader it was given (or
\* created) and leaves both global states and every other reader alone.
C10_SubsystemsApart ==
    [][/\ lastOp'.name \in AcquisitionOps =>
            /\ \A k \in 1..Len(calls') : calls'[k].sub = "AcquisitionManager"
            /\ UNCHANGED <<ctrl, readers, instruments>>
       /\ lastOp'.name \in ControllerOps =>
            /\ \A k \in 1..Len(calls') : calls'[k].sub = "InstrumentController"
            /\ UNCHANGED <<acq, readers, instruments>>
       /\ lastOp'.name \in ReaderOps =>
            /\ \A k \in 1..Len(calls') : calls'[k].sub = "DataReader"
            /\ UNCHANGED <<acq, ctrl, instruments>>
            /\ \A a \in ReaderIds :
                   readers'[a] # readers[a] =>
                       /\ Len(calls') = 1
                       /\ calls'[1].target = a
                       /\ (lastOp'.name = "free_reader" => lastOp'.args[1].ptr = a)
                       /\ (lastOp'.name = "make_reader" => ret' = <<Ptr(a)>>)]_vars

C10_Witness ==
    /\ lastOp.name = "start"
    /\ ret = <<Enum("OK")>>
    /\ acq = "Running"
    /\ ctrl.state = "Operate"
    /\ ctrl.bound # NULL
    /\ \E a \in ReaderIds : readers[a] = "live"


Next ==
    \/ usb_instrument
    \/ simulated_instrument
    \/ set_switch
    \/ ignore_remaining_pumpdown_time
    \/ get_pumpdown_remaining_seconds
    \/ get_source
    \/ get_number_readback
    \/ get_binary_readback
    \/ start
    \/ start_with_switching
    \/ stop
    \/ pause
    \/ resume
    \/ extend
    \/ get_state
    \/ get_current_folder
    \/ get_acquisition_bins_per_amu
    \/ set_acquisition_bins_per_amu
    \/ get_last_num_masses
    \/ get_max_num_masses
    \/ get_last_spectrum_masses
    \/ get_last_spectrum_intensities
    \/ start_controller
    \/ stop_controller
    \/ can_vent
    \/ vent
    \/ can_pump_down
    \/ pump_down
    \/ get_instrument_state
    \/ get_operation_mode
    \/ can_operate
    \/ operate
    \/ standby
    \/ can_standby
    \/ get_tune_parameters
    \/ set_tune_parameters
    \/ get_ion_source_optimization
    \/ set_ion_source_optimization
    \/ make_reader
    \/ free_reader
    \/ get_delta_background_spectrum
    \/ get_delta_spectrum
    \/ get_spectrum
    \/ get_masses
    \/ num_masses
    \/ num_spectra
    \/ retention_times
    \/ get_TIC

Spec == Init /\ [][Next]_vars
====
